---------------------------- MODULE Spec2Model ----------------------------
(***************************************************************************)
(* A model of pyramid_openapi3/__init__.py: the configuration directives,  *)
(* the two ApplicationCreated subscribers, the openapi_view view deriver   *)
(* and the openapi_validation_error exception view.                        *)
(*                                                                         *)
(* Python strings that the code inspects (route paths, server URLs) are    *)
(* sequences of one-character strings.  A settings value is one of the     *)
(* strings "unset" (key absent), "True", "False", "None", or "str:<text>"  *)
(* for a Python str.                                                       *)
(*                                                                         *)
(* The module holds one specification per part of the program:             *)
(*   SpecConfig     the configuration directives and the explorer view     *)
(*   SpecRoutes     validate_routes                                        *)
(*   SpecResponses  validate_minimal_responses                             *)
(*   SpecView       wrapper_view under concurrent workers                  *)
(*   SpecError      openapi_validation_error                               *)
(***************************************************************************)
EXTENDS Integers, Sequences, FiniteSets, TLC

VARIABLES
    bag,            \* registry.settings.get("pyramid_openapi3"): None or the dict
    endpointFlag,   \* settings value of pyramid_openapi3.enable_endpoint_validation
    appRoutes,      \* app.routes_mapper.routes, the route paths in registration order
    vrResult,       \* what validate_routes did
    mrSettings,     \* the three settings validate_minimal_responses reads
    mrResult,       \* what validate_minimal_responses did
    errContext,     \* the exception handed to openapi_validation_error
    errResponse,    \* the response openapi_validation_error returned
    formatters,     \* settings.get("pyramid_openapi3_formatters"): the registry
    regLog,         \* the spec registrations attempted so far, with their outcomes
    explorer,       \* the explorer registration
    phase,          \* "configuring", then "running" or "failed"
    explorerReply,  \* what the last request for the explorer page got
    reqFlag,        \* settings value of pyramid_openapi3.enable_request_validation
    respFlag,       \* settings value of pyramid_openapi3.enable_response_validation
    baseUrl,        \* base_url of the shared request and response validators
    req             \* per worker: the request it handles and where its handling stands

routeVars == <<endpointFlag, appRoutes, vrResult>>
respVars == <<mrSettings, mrResult>>
errVars == <<errContext, errResponse>>
cfgVars == <<formatters, regLog, explorer, phase, explorerReply>>
vars == <<bag, endpointFlag, appRoutes, vrResult, mrSettings, mrResult,
          errContext, errResponse, formatters, regLog, explorer, phase,
          explorerReply, reqFlag, respFlag, baseUrl, req>>
viewVars == <<reqFlag, respFlag, baseUrl, req>>

None == "None"
Unset == "unset"

\* settings.get("pyramid_openapi3") when the key is absent.
NoBag == [absent |-> TRUE]

(***************************************************************************)
(* Bounds of the model.                                                    *)
(***************************************************************************)
MaxServers == 2
MaxPaths == 2
MaxRoutes == 2
MaxOps == 2
MaxErrs == 3
MaxRegistrations == 3
MaxWorkers == 2
MaxResultErrs == 1

(***************************************************************************)
(* Python helpers.                                                         *)
(***************************************************************************)
\* dict.get(key, default) on a settings value.
Get(v, default) == IF v = Unset THEN default ELSE v

\* Python truthiness of a settings value (bool(v)).
Truthy(v) == v \notin {"False", None, "str:"}

\* str.startswith
StartsWith(s, p) == Len(p) <= Len(s) /\ SubSeq(s, 1, Len(p)) = p

\* Whether s holds old at position i.
OccursAt(s, i, old) ==
    /\ i >= 1
    /\ i + Len(old) - 1 <= Len(s)
    /\ SubSeq(s, i, i + Len(old) - 1) = old

\* str.replace(old, ""): scans s from the left, drops each occurrence of old it
\* meets and goes on after it; an empty old with an empty replacement leaves s.
RECURSIVE ReplaceFrom(_, _, _)
ReplaceFrom(s, old, i) ==
    IF i > Len(s) THEN <<>>
    ELSE IF OccursAt(s, i, old) THEN ReplaceFrom(s, old, i + Len(old))
    ELSE <<s[i]>> \o ReplaceFrom(s, old, i + 1)

\* A replace anchored at the start of s: only a leading occurrence is dropped.
PyReplaceAnchored(s, old) ==
    IF StartsWith(s, old) THEN SubSeq(s, Len(old) + 1, Len(s)) ELSE s

PyReplace(s, old) == IF old = <<>> THEN s ELSE ReplaceFrom(s, old, 1)

\* The least index >= i of s holding a character of cs, or Len(s) + 1.
RECURSIVE FindFrom(_, _, _)
FindFrom(s, cs, i) ==
    IF i > Len(s) THEN Len(s) + 1
    ELSE IF s[i] \in cs THEN i
    ELSE FindFrom(s, cs, i + 1)

SchemeChars == {"h"}

\* urllib.parse.urlparse(url).path for URLs over the alphabet of ServerPool (no
\* '?', '#' or ';'): a scheme is the text before the first ':' when it is made
\* of scheme characters, a netloc follows '//' up to the next '/', the rest is
\* the path.
UrlPath(url) ==
    LET c == FindFrom(url, {":"}, 1)
        hasScheme == /\ c > 1
                     /\ c <= Len(url)
                     /\ \A k \in 1..(c - 1) : url[k] \in SchemeChars
        rest == IF hasScheme THEN SubSeq(url, c + 1, Len(url)) ELSE url
    IN  IF StartsWith(rest, <<"/", "/">>)
        THEN SubSeq(rest, FindFrom(rest, {"/"}, 3), Len(rest))
        ELSE rest

\* A settings key that is absent, or present with value v.
Absent == [present |-> FALSE]
Present(v) == [present |-> TRUE, value |-> v]
GetOr(s, default) == IF s.present THEN s.value ELSE default

\* The parts of the state a specification does not use, at rest.
RoutesIdle ==
    /\ endpointFlag = Unset
    /\ appRoutes = <<>>
    /\ vrResult = [status |-> "none", missing |-> <<>>, routes |-> <<>>, raised |-> 0]

RespIdle ==
    /\ mrSettings = [minimal |-> Absent, with_parameters |-> Absent, overrides |-> Absent]
    /\ mrResult = [status |-> "none", errors |-> {}]

ErrIdle ==
    /\ errContext = [kind |-> "none", errors |-> <<>>]
    /\ errResponse = [status_code |-> 0, logged |-> "none"]

CfgIdle ==
    /\ formatters = [present |-> FALSE]
    /\ regLog = <<>>
    /\ explorer = [outcome |-> "none"]
    /\ phase = "configuring"
    /\ explorerReply = [status |-> "none"]

ViewIdle ==
    /\ reqFlag = Unset
    /\ respFlag = Unset
    /\ baseUrl = [request_validator |-> None, response_validator |-> None]
    /\ req = <<>>

(***************************************************************************)
(* validate_routes                                                         *)
(***************************************************************************)
\* Server URLs a spec may declare: "/", "/v", "h://x/v/a", "h://x".
ServerPool ==
    { <<"/">>,
      <<"/", "v">>,
      <<"h", ":", "/", "/", "x", "/", "v", "/", "a">>,
      <<"h", ":", "/", "/", "x">> }

\* Paths a spec may declare: "/a", "/b", "/a/b".
PathPool == { <<"/", "a">>, <<"/", "b">>, <<"/", "a", "/", "b">> }

\* Route patterns an application may register:
\* "/a", "b", "/a/v", "/v/a/b", "/v/a/v".
RoutePool ==
    { <<"/", "a">>,
      <<"b">>,
      <<"/", "a", "/", "v">>,
      <<"/", "v", "/", "a", "/", "b">>,
      <<"/", "v", "/", "a", "/", "v">> }

SeqsUpTo(S, n) == UNION { [1..k -> S] : k \in 0..n }

Injective(s) == \A i, j \in 1..Len(s) : i # j => s[i] # s[j]

Range(s) == { s[i] : i \in 1..Len(s) }

\* The parsed spec: its servers (URLs) and its paths (dict keys, in file order).
SpecObjects ==
    { [servers |-> sv, paths |-> ps, operations |-> <<>>] :
        sv \in SeqsUpTo(ServerPool, MaxServers),
        ps \in { p \in SeqsUpTo(PathPool, MaxPaths) : Injective(p) } }

\* The dict a registration stores; custom_formatters is None or a reference to
\* the formatter registry.
MkBag(filepath, route_name, spec, custom_formatters) ==
    [ filepath |-> filepath,
      spec_route_name |-> route_name,
      spec |-> spec,
      request_validator |-> [class |-> "RequestValidator",
                             custom_formatters |-> custom_formatters],
      response_validator |-> [class |-> "ResponseValidator",
                              custom_formatters |-> custom_formatters] ]

\* The loop that collects the prefixes from the first n servers.
RECURSIVE PrefixesUpTo(_, _)
PrefixesUpTo(servers, n) ==
    IF n = 0 THEN <<>>
    ELSE LET path == UrlPath(servers[n])
         IN  IF path # <<"/">>
             THEN Append(PrefixesUpTo(servers, n - 1), path)
             ELSE PrefixesUpTo(servers, n - 1)

Prefixes(servers) == PrefixesUpTo(servers, Len(servers))

\* The loop of remove_prefixes over the prefixes from index k on.
RECURSIVE StripFrom(_, _, _)
StripFrom(path, prefixes, k) ==
    IF k > Len(prefixes) THEN path
    ELSE StripFrom(PyReplace(path, prefixes[k]), prefixes, k + 1)

LeadingSlash(path) == IF ~StartsWith(path, <<"/">>) THEN <<"/">> \o path ELSE path

remove_prefixes(path, prefixes) == StripFrom(LeadingSlash(path), prefixes, 1)

StrippedRoutes(routes, prefixes) ==
    [ i \in 1..Len(routes) |-> remove_prefixes(routes[i], prefixes) ]

\* A fail-fast variant: only the first path without a route is reported.
MissingFirstOnly(paths, routes) ==
    LET all == SelectSeq(paths, LAMBDA r : r \notin { routes[i] : i \in 1..Len(routes) })
    IN  IF all = <<>> THEN <<>> ELSE <<all[1]>>

\* [r for r in paths if r not in routes]
Missing(paths, routes) == SelectSeq(paths, LAMBDA r : r \notin Range(routes))

EndpointValidationEnabled == Truthy(Get(endpointFlag, "True"))

NoResult == [status |-> "none", missing |-> <<>>, routes |-> <<>>, raised |-> 0]

\* What validate_routes(event) does for an application with these settings and
\* routes: it returns after a warning, returns because the check is disabled,
\* returns normally, or raises MissingEndpointsError(missing).
ValidateRoutesResult ==
    IF bag = NoBag
    THEN [NoResult EXCEPT !.status = "warned"]
    ELSE IF ~EndpointValidationEnabled
    THEN [NoResult EXCEPT !.status = "disabled"]
    ELSE LET prefixes == Prefixes(bag.spec.servers)
             routes == StrippedRoutes(appRoutes, prefixes)
             missing == Missing(bag.spec.paths, routes)
         IN  IF missing # <<>>
             THEN [status |-> "MissingEndpointsError",
                   missing |-> missing,
                   routes |-> routes,
                   raised |-> 1]
             ELSE [status |-> "ok", missing |-> <<>>, routes |-> routes, raised |-> 0]

\* validate_routes(event), run once on ApplicationCreated.
validate_routes ==
    /\ vrResult.status = "none"
    /\ vrResult' = ValidateRoutesResult
    /\ UNCHANGED <<bag, endpointFlag, appRoutes, respVars, errVars, cfgVars, viewVars>>

InitRoutes ==
    /\ bag \in {NoBag} \cup { MkBag("a.yaml", "pyramid_openapi3.spec", s, None) : s \in SpecObjects }
    /\ endpointFlag \in {Unset, "False", "str:false"}
    /\ appRoutes \in SeqsUpTo(RoutePool, MaxRoutes)
    /\ vrResult = NoResult
    /\ RespIdle
    /\ ErrIdle
    /\ CfgIdle
    /\ ViewIdle

NextRoutes == validate_routes

SpecRoutes == InitRoutes /\ [][NextRoutes]_vars

(***************************************************************************)
(* Properties of validate_routes.                                          *)
(***************************************************************************)
vrRan == vrResult.status \in {"ok", "MissingEndpointsError"}

\* The index of x in the injective sequence s.
IndexOf(s, x) == CHOOSE i \in 1..Len(s) : s[i] = x

\* The spec paths that equal no prefix-stripped route path.
Uncovered ==
    LET prefixes == Prefixes(bag.spec.servers)
    IN  { p \in Range(bag.spec.paths) :
            \A i \in 1..Len(appRoutes) : remove_prefixes(appRoutes[i], prefixes) # p }

\* C3: with a spec configured and endpoint validation enabled, validate_routes
\* raises nothing iff every spec path is the prefix-stripped path of some route;
\* otherwise it raises MissingEndpointsError once, carrying exactly the spec
\* paths without a route, each once and in the order of the spec.
C3_RoutesCoverage ==
    (bag # NoBag /\ EndpointValidationEnabled /\ vrResult.status # "none") =>
        /\ vrRan
        /\ vrResult.status = "ok" <=> Uncovered = {}
        /\ vrResult.status = "ok" => vrResult.raised = 0 /\ vrResult.missing = <<>>
        /\ vrResult.status = "MissingEndpointsError" =>
              /\ vrResult.raised = 1
              /\ Range(vrResult.missing) = Uncovered
              /\ Injective(vrResult.missing)
              /\ \A i, j \in 1..Len(vrResult.missing) :
                    i < j => IndexOf(bag.spec.paths, vrResult.missing[i])
                               < IndexOf(bag.spec.paths, vrResult.missing[j])

\* C3 witness: a spec of two paths, neither with a route, both reported.
C3_Witness ==
    /\ vrResult.status = "MissingEndpointsError"
    /\ Len(bag.spec.paths) = 2
    /\ Len(vrResult.missing) = 2
    /\ Len(appRoutes) > 0

\* The occurrences of old in s that a left-to-right scan deletes: no two of them
\* overlap, and every other occurrence overlaps an earlier one of them.
Deleted(s, old) ==
    LET occ == { i \in 1..Len(s) : OccursAt(s, i, old) }
    IN  CHOOSE P \in SUBSET occ :
          /\ \A i, j \in P : i < j => i + Len(old) <= j
          /\ \A j \in occ \ P : \E i \in P : i < j /\ j < i + Len(old)

\* s without every occurrence of old (old not empty), stated by positions.
WithoutOccurrences(s, old) ==
    LET P == Deleted(s, old)
        idx == [k \in 1..Len(s) |-> k]
        kept == SelectSeq(idx, LAMBDA k : ~\E i \in P : i <= k /\ k < i + Len(old))
    IN  [n \in 1..Len(kept) |-> s[kept[n]]]

\* The path components of the server URLs other than "/", in order.
DeclaredPrefixes(servers) ==
    SelectSeq([i \in 1..Len(servers) |-> UrlPath(servers[i])], LAMBDA p : p # <<"/">>)

\* The route path with a leading "/" and with the prefixes deleted in order.
RECURSIVE ExpectedStrip(_, _, _)
ExpectedStrip(path, prefixes, k) ==
    IF k > Len(prefixes) THEN path
    ELSE ExpectedStrip(IF prefixes[k] = <<>> THEN path
                       ELSE WithoutOccurrences(path, prefixes[k]),
                       prefixes, k + 1)

ExpectedRoute(path, prefixes) ==
    ExpectedStrip(IF path # <<>> /\ path[1] = "/" THEN path ELSE <<"/">> \o path,
                  prefixes, 1)

\* C10: the stripped route path is the route path with a leading "/" prepended
\* when it lacks one and then, for each non-"/" server path in order, with every
\* occurrence of it deleted wherever it stands; so a route that holds the one
\* prefix once, in a non-leading position, covers the spec path that is left
\* when that occurrence is deleted.
C10_UnanchoredStrip ==
    vrRan =>
        LET prefixes == DeclaredPrefixes(bag.spec.servers)
        IN  /\ Len(vrResult.routes) = Len(appRoutes)
            /\ \A i \in 1..Len(appRoutes) :
                  /\ vrResult.routes[i] = ExpectedRoute(appRoutes[i], prefixes)
                  /\ vrResult.routes[i] \notin Range(vrResult.missing)
                  /\ \A j \in 2..Len(appRoutes[i]) :
                        ( /\ Len(prefixes) = 1
                          /\ prefixes[1] # <<>>
                          /\ appRoutes[i][1] = "/"
                          /\ { k \in 1..Len(appRoutes[i]) :
                                 OccursAt(appRoutes[i], k, prefixes[1]) } = {j} )
                        => LET left == SubSeq(appRoutes[i], 1, j - 1) \o
                                        SubSeq(appRoutes[i], j + Len(prefixes[1]),
                                               Len(appRoutes[i]))
                           IN  left \notin Range(vrResult.missing)

\* C10 witness: the only route holds the prefix in a non-leading position, and
\* the spec path left after deleting it counts as covered.
C10_Witness ==
    /\ vrResult.status = "ok"
    /\ Len(appRoutes) = 1
    /\ Len(bag.spec.paths) = 1
    /\ LET prefixes == DeclaredPrefixes(bag.spec.servers)
       IN  /\ Len(prefixes) = 1
           /\ prefixes[1] # <<>>
           /\ \E j \in 2..Len(appRoutes[1]) : OccursAt(appRoutes[1], j, prefixes[1])
           /\ ~OccursAt(appRoutes[1], 1, prefixes[1])

(***************************************************************************)
(* openapi_validation_error                                                *)
(***************************************************************************)
\* The classes of the errors openapi-core reports.
ErrorClasses == {"InvalidSecurity", "InvalidSchemaValue", "MissingRequiredParameter"}

\* isinstance(error, InvalidSecurity)
IsInvalidSecurity(error) == error = "InvalidSecurity"

\* A loop in which the last error decides the status code.
RECURSIVE SecurityLoopLastWins(_, _, _)
SecurityLoopLastWins(errors, i, status_code) ==
    IF i > Len(errors) THEN status_code
    ELSE SecurityLoopLastWins(errors, i + 1,
                              IF IsInvalidSecurity(errors[i]) THEN 401 ELSE 400)

\* for error in context.errors: if isinstance(error, InvalidSecurity): status_code = 401
RECURSIVE SecurityLoop(_, _, _)
SecurityLoop(errors, i, status_code) ==
    IF i > Len(errors) THEN status_code
    ELSE SecurityLoop(errors, i + 1,
                      IF IsInvalidSecurity(errors[i]) THEN 401 ELSE status_code)

\* The status code openapi_validation_error gives to exception_response.
StatusCode(kind, errors) ==
    LET afterRequest == IF kind = "RequestValidationError"
                        THEN SecurityLoop(errors, 1, 400)
                        ELSE 0
    IN  IF kind = "ResponseValidationError" THEN 500 ELSE afterRequest

\* logger.warning for a request failure, logger.error for a response failure.
LogLevel(kind) ==
    LET afterRequest == IF kind = "RequestValidationError" THEN "warning" ELSE "none"
    IN  IF kind = "ResponseValidationError" THEN "error" ELSE afterRequest

\* openapi_validation_error(context, request).  The JSON body is the output of
\* the configured extract_errors callable and is not modelled.
openapi_validation_error ==
    /\ errContext.kind # "none"
    /\ errResponse.status_code = 0
    /\ errResponse' = [status_code |-> StatusCode(errContext.kind, errContext.errors),
                       logged |-> LogLevel(errContext.kind)]
    /\ UNCHANGED <<bag, routeVars, respVars, errContext, cfgVars, viewVars>>

InitError ==
    /\ bag = NoBag
    /\ RoutesIdle
    /\ RespIdle
    /\ CfgIdle
    /\ ViewIdle
    /\ errContext \in [kind : {"RequestValidationError", "ResponseValidationError"},
                       errors : SeqsUpTo(ErrorClasses, MaxErrs)]
    /\ errResponse = [status_code |-> 0, logged |-> "none"]

NextError == openapi_validation_error

SpecError == InitError /\ [][NextError]_vars

\* C2: a RequestValidationError is answered with 401 when any of its errors, at
\* any position, is an InvalidSecurity, and with 400 otherwise; a
\* ResponseValidationError is answered with 500 whatever its errors are.
C2_StatusSelection ==
    errResponse.status_code # 0 =>
        LET hasSecurity == \E i \in 1..Len(errContext.errors) :
                              errContext.errors[i] = "InvalidSecurity"
        IN  /\ errContext.kind = "RequestValidationError" =>
                 errResponse.status_code = (IF hasSecurity THEN 401 ELSE 400)
            /\ errContext.kind = "ResponseValidationError" =>
                 errResponse.status_code = 500

\* C2 witness: a request failure answered 401 whose security error comes first
\* and is followed by an error of another class.
C2_Witness ==
    /\ errContext.kind = "RequestValidationError"
    /\ Len(errContext.errors) >= 2
    /\ errContext.errors[1] = "InvalidSecurity"
    /\ errContext.errors[Len(errContext.errors)] # "InvalidSecurity"
    /\ errResponse.status_code = 401

(***************************************************************************)
(* validate_minimal_responses.  The source holds its docstring and the     *)
(* three settings reads; the loop over the operations follows section 4.5  *)
(* of the specification, which states no condition under which the check   *)
(* is skipped, and is modelled for an application with a registered spec.  *)
(***************************************************************************)
\* The defaults of the three settings.
DefaultMinimalWithout500 == {200, 400}

DefaultMinimalResponses == {200, 400, 500}

DefaultMinimalResponsesWithParameters == {404}

DefaultOverrides == [k \in {} |-> {}]

\* The operations (path, method) a spec may declare.
OpKeys ==
    { <<(<<"/", "a">>), "get">>, <<(<<"/", "a">>), "post">>, <<(<<"/", "b">>), "get">> }

\* The response codes an operation may declare.
ResponsePool ==
    { {200, 400, 500}, {200, 400, 404, 500}, {200, 400, 404}, {202, 400, 500} }

Operations ==
    UNION { [K -> [parameters : BOOLEAN, responses : ResponsePool]] :
              K \in { S \in SUBSET OpKeys : Cardinality(S) <= MaxOps } }

\* The values the three settings may hold.
MinimalPool == {Absent, Present({200})}

WithParametersPool == {Absent, Present({404, 422})}

OverridesPool ==
    { Absent,
      Present([k \in { <<(<<"/", "a">>), "post">> } |-> {202, 400, 500}]),
      Present([k \in { <<(<<"/", "a">>), "get">> } |-> {200}]) }

\* The codes the check requires of operation key with declaration op.
RequiredResponses(key, op) ==
    LET minimal == GetOr(mrSettings.minimal, DefaultMinimalResponses)
        with_parameters == GetOr(mrSettings.with_parameters,
                                 DefaultMinimalResponsesWithParameters)
        overrides == GetOr(mrSettings.overrides, DefaultOverrides)
    IN  IF key \in DOMAIN overrides
        THEN overrides[key]
        ELSE minimal \cup (IF op.parameters THEN with_parameters ELSE {})

\* validate_minimal_responses(event): every offending operation is gathered with
\* the codes it lacks, then the check fails once.
validate_minimal_responses ==
    /\ mrResult.status = "none"
    /\ bag # NoBag
    /\ LET ops == bag.spec.operations
           errors == { [path |-> key[1],
                        method |-> key[2],
                        missing |-> RequiredResponses(key, ops[key]) \ ops[key].responses] :
                       key \in { k \in DOMAIN ops :
                                   RequiredResponses(k, ops[k]) \ ops[k].responses # {} } }
       IN  mrResult' = [status |-> IF errors = {} THEN "ok" ELSE "failed",
                        errors |-> errors]
    /\ UNCHANGED <<bag, routeVars, mrSettings, errVars, cfgVars, viewVars>>

PathsOf(ops) ==
    SelectSeq(<< <<"/", "a">>, <<"/", "b">> >>, LAMBDA p : \E k \in DOMAIN ops : k[1] = p)

InitResponses ==
    /\ bag \in { MkBag("a.yaml", "pyramid_openapi3.spec",
                       [servers |-> <<>>, paths |-> PathsOf(ops), operations |-> ops],
                       None) :
                 ops \in Operations }
    /\ RoutesIdle
    /\ ErrIdle
    /\ CfgIdle
    /\ ViewIdle
    /\ mrSettings \in [minimal : MinimalPool,
                       with_parameters : WithParametersPool,
                       overrides : OverridesPool]
    /\ mrResult = [status |-> "none", errors |-> {}]

NextResponses == validate_minimal_responses

SpecResponses == InitResponses /\ [][NextResponses]_vars

\* The required codes as the documentation states them.
C5_Required(key, op) ==
    LET minimal == IF mrSettings.minimal.present
                   THEN mrSettings.minimal.value ELSE {200, 400, 500}
        extra == IF mrSettings.with_parameters.present
                 THEN mrSettings.with_parameters.value ELSE {404}
    IN  IF mrSettings.overrides.present /\ key \in DOMAIN mrSettings.overrides.value
        THEN mrSettings.overrides.value[key]
        ELSE IF op.parameters THEN minimal \cup extra ELSE minimal

FilePool == {"a.yaml", "b.yaml", "bad.yaml"}

\* read_yaml_file, validate_spec and create_spec: the spec object, or an error.
LoadsCleanly(filepath) == filepath # "bad.yaml"

SpecFile(filepath) ==
    IF filepath = "a.yaml"
    THEN [servers |-> <<>>, paths |-> << <<"/", "a">> >>, operations |-> <<>>]
    ELSE [servers |-> << <<"/", "v">> >>, paths |-> <<>>, operations |-> <<>>]

\* Path(filepath).name, as characters.
FileName(filepath) ==
    IF filepath = "a.yaml" THEN <<"a", ".", "y", "a", "m", "l">>
    ELSE IF filepath = "b.yaml" THEN <<"b", ".", "y", "a", "m", "l">>
    ELSE <<"x", ".", "y", "a", "m", "l">>

\* The route of a spec file: "/o.yaml".
FileRoutePool == { <<"/", "o", ".", "y", "a", "m", "l">> }

\* The route of a spec directory: "/s", "/s.yml".
DirectoryRoutePool == { <<"/", "s">>, <<"/", "s", ".", "y", "m", "l">> }

RouteNamePool == {"pyramid_openapi3.spec", "custom.spec"}

FormatterNames == {"unique-name"}

\* str.endswith
EndsWith(s, suffix) ==
    Len(suffix) <= Len(s) /\ SubSeq(s, Len(s) - Len(suffix) + 1, Len(s)) = suffix

\* route.endswith((".yaml", ".yml", ".json"))
IsFilenameRoute(route) ==
    \/ EndsWith(route, <<".", "y", "a", "m", "l">>)
    \/ EndsWith(route, <<".", "y", "m", "l">>)
    \/ EndsWith(route, <<".", "j", "s", "o", "n">>)

\* A guard that reads a key no registration ever writes.
AlreadyConfiguredNever == FALSE

\* settings and settings.get("spec") is not None: every bag this module stores
\* holds a spec.
AlreadyConfigured == bag # NoBag

\* config.registry.settings.get("pyramid_openapi3_formatters")
CustomFormatters == IF formatters.present THEN "registry" ELSE None

LogEntry(directive, filepath, route, route_name, outcome) ==
    [ directive |-> directive,
      filepath |-> filepath,
      route |-> route,
      route_name |-> route_name,
      custom_formatters |-> CustomFormatters,
      outcome |-> outcome ]

\* add_formatter(config, name, func)
add_formatter(name) ==
    /\ phase = "configuring"
    /\ formatters' = [present |-> TRUE,
                      value |-> (IF formatters.present THEN formatters.value ELSE {})
                                  \cup {name}]
    /\ formatters' # formatters
    /\ UNCHANGED <<bag, routeVars, respVars, errVars, regLog, explorer, phase,
                   explorerReply, viewVars>>

\* add_spec_view(config, filepath, route, route_name).register
add_spec_view(filepath, route, route_name) ==
    /\ phase = "configuring"
    /\ Len(regLog) < MaxRegistrations
    /\ IF AlreadyConfigured
       THEN /\ regLog' = Append(regLog, LogEntry("pyramid_openapi3_spec", filepath, route,
                                                 route_name, "ConfigurationError"))
            /\ UNCHANGED <<bag, appRoutes>>
       ELSE IF ~LoadsCleanly(filepath)
       THEN /\ regLog' = Append(regLog, LogEntry("pyramid_openapi3_spec", filepath, route,
                                                 route_name, "LoadError"))
            /\ UNCHANGED <<bag, appRoutes>>
       ELSE /\ appRoutes' = Append(appRoutes, route)
            /\ bag' = MkBag(filepath, route_name, SpecFile(filepath), CustomFormatters)
            /\ regLog' = Append(regLog, LogEntry("pyramid_openapi3_spec", filepath, route,
                                                 route_name, "registered"))
    /\ UNCHANGED <<endpointFlag, vrResult, respVars, errVars, formatters, explorer,
                   phase, explorerReply, viewVars>>

\* add_spec_view_directory(config, filepath, route, route_name).register
add_spec_view_directory(filepath, route, route_name) ==
    /\ phase = "configuring"
    /\ Len(regLog) < MaxRegistrations
    /\ IF AlreadyConfigured \/ IsFilenameRoute(route)
       THEN /\ regLog' = Append(regLog, LogEntry("pyramid_openapi3_spec_directory",
                                                 filepath, route, route_name,
                                                 "ConfigurationError"))
            /\ UNCHANGED <<bag, appRoutes>>
       ELSE IF ~LoadsCleanly(filepath)
       THEN /\ regLog' = Append(regLog, LogEntry("pyramid_openapi3_spec_directory",
                                                 filepath, route, route_name, "LoadError"))
            /\ UNCHANGED <<bag, appRoutes>>
       ELSE /\ appRoutes' = Append(appRoutes, route \o <<"/">> \o FileName(filepath))
            /\ bag' = MkBag(filepath, route_name, SpecFile(filepath), CustomFormatters)
            /\ regLog' = Append(regLog, LogEntry("pyramid_openapi3_spec_directory",
                                                 filepath, route, route_name, "registered"))
    /\ UNCHANGED <<endpointFlag, vrResult, respVars, errVars, formatters, explorer,
                   phase, explorerReply, viewVars>>

\* A register() that refuses to add the explorer while no spec is registered.
add_explorer_view_checked ==
    /\ phase = "configuring"
    /\ explorer.outcome = "none"
    /\ IF bag = NoBag
       THEN explorer' = [outcome |-> "ConfigurationError"] /\ UNCHANGED appRoutes
       ELSE explorer' = [outcome |-> "registered"]
            /\ appRoutes' = Append(appRoutes, <<"/", "d", "/">>)
    /\ UNCHANGED <<bag, endpointFlag, vrResult, respVars, errVars, formatters, regLog,
                   phase, explorerReply, viewVars>>

\* add_explorer_view(config).register: the route "/d/" and its view are added,
\* whether or not a spec is registered.
add_explorer_view ==
    /\ phase = "configuring"
    /\ explorer.outcome = "none"
    /\ explorer' = [outcome |-> "registered"]
    /\ appRoutes' = Append(appRoutes, <<"/", "d", "/">>)
    /\ UNCHANGED <<bag, endpointFlag, vrResult, respVars, errVars, formatters, regLog,
                   phase, explorerReply, viewVars>>

\* config.make_wsgi_app(): ApplicationCreated is notified and validate_routes
\* runs; the application runs unless the subscriber raised.  The specs of
\* FilePool declare no operation, which leaves validate_minimal_responses
\* nothing to report.
make_wsgi_app ==
    /\ phase = "configuring"
    /\ vrResult' = ValidateRoutesResult
    /\ phase' = IF vrResult'.status = "MissingEndpointsError" THEN "failed" ELSE "running"
    /\ UNCHANGED <<bag, endpointFlag, appRoutes, respVars, errVars, formatters, regLog,
                   explorer, explorerReply, viewVars>>

\* explorer_view(request), for a request to the explorer route of a running
\* application.
explorer_view ==
    /\ phase = "running"
    /\ explorer.outcome = "registered"
    /\ explorerReply' =
          IF bag = NoBag
          THEN [status |-> "ConfigurationError"]
          ELSE [status |-> "Response", spec_url |-> bag.spec_route_name]
    /\ explorerReply' # explorerReply
    /\ UNCHANGED <<bag, routeVars, respVars, errVars, formatters, regLog, explorer, phase,
                   viewVars>>

InitConfig ==
    /\ bag = NoBag
    /\ endpointFlag = Unset
    /\ appRoutes \in { <<>>, << <<"/", "a">> >> }
    /\ vrResult = NoResult
    /\ RespIdle
    /\ ErrIdle
    /\ CfgIdle
    /\ ViewIdle

NextConfig ==
    \/ \E name \in FormatterNames : add_formatter(name)
    \/ \E filepath \in FilePool, route \in FileRoutePool, route_name \in RouteNamePool :
          add_spec_view(filepath, route, route_name)
    \/ \E filepath \in FilePool, route \in DirectoryRoutePool :
          add_spec_view_directory(filepath, route, "pyramid_openapi3.spec")
    \/ add_explorer_view
    \/ make_wsgi_app
    \/ explorer_view

SpecConfig == InitConfig /\ [][NextConfig]_vars

(***************************************************************************)
(* Properties of the configuration directives.                             *)
(***************************************************************************)
\* The bag a logged registration stores when it succeeds.
BagOf(entry) ==
    [ filepath |-> entry.filepath,
      spec_route_name |-> entry.route_name,
      spec |-> SpecFile(entry.filepath),
      request_validator |-> [class |-> "RequestValidator",
                             custom_formatters |-> entry.custom_formatters],
      response_validator |-> [class |-> "ResponseValidator",
                              custom_formatters |-> entry.custom_formatters] ]

Registered == { i \in 1..Len(regLog) : regLog[i].outcome = "registered" }

\* C4, as stated: the bag is what the first registration made it and every
\* later registration fails with ConfigurationError.
C4_FirstRegistrationOnly ==
    Len(regLog) >= 1 =>
        /\ bag = (IF regLog[1].outcome = "registered" THEN BagOf(regLog[1]) ELSE NoBag)
        /\ \A j \in 2..Len(regLog) : regLog[j].outcome = "ConfigurationError"

\* C4, amended: only the first registration that succeeds takes effect.  Every
\* registration after it fails with ConfigurationError and the bag stays as that
\* registration set it; a registration before it failed (a directory route that
\* is a filename, a spec that does not load) and left the bag unset.
C4_FirstSuccessOnly ==
    /\ Cardinality(Registered) <= 1
    /\ Registered = {} => bag = NoBag
    /\ \A i \in Registered :
          /\ bag = BagOf(regLog[i])
          /\ \A j \in (i + 1)..Len(regLog) : regLog[j].outcome = "ConfigurationError"
          /\ \A j \in 1..(i - 1) : regLog[j].outcome \in {"ConfigurationError", "LoadError"}
    /\ \A j \in 1..Len(regLog) :
          regLog[j].outcome = "ConfigurationError" =>
              \/ \E i \in Registered : i < j
              \/ /\ regLog[j].directive = "pyramid_openapi3_spec_directory"
                 /\ IsFilenameRoute(regLog[j].route)

\* C4 witness: a first registration, then two more through either directive
\* and with other arguments, both refused.
C4_Witness ==
    /\ Len(regLog) = 3
    /\ regLog[1].outcome = "registered"
    /\ regLog[2].directive # regLog[1].directive
    /\ regLog[2].filepath # regLog[1].filepath
    /\ regLog[3].directive = regLog[1].directive
    /\ regLog[3].route_name # regLog[1].route_name
    /\ bag = BagOf(regLog[1])

\* C6, as stated: no running application answers a request for the explorer
\* page with ConfigurationError.
C6_NoRequestTimeError ==
    ~(phase = "running" /\ explorerReply.status = "ConfigurationError")

\* C6, amended: registering the explorer raises nothing, with or without a
\* spec, and the application starts; a request for the explorer page raises
\* ConfigurationError exactly when no spec is registered, and otherwise gets
\* the page with the URL of the spec route.
C6_ErrorAtRequestTime ==
    /\ explorer.outcome \in {"none", "registered"}
    /\ explorerReply.status # "none" =>
          /\ phase = "running"
          /\ explorer.outcome = "registered"
          /\ explorerReply.status = "ConfigurationError" <=> bag = NoBag
          /\ bag # NoBag =>
                /\ explorerReply.status = "Response"
                /\ explorerReply.spec_url = bag.spec_route_name

\* C6 witness: a running application without a spec whose explorer page
\* raised ConfigurationError.
C6_Witness ==
    /\ phase = "running"
    /\ explorer.outcome = "registered"
    /\ bag = NoBag
    /\ regLog = <<>>
    /\ explorerReply.status = "ConfigurationError"

(***************************************************************************)
(* openapi_view and wrapper_view.  Each worker handles one request; the    *)
(* workers share the settings and the two validators, and run concurrently *)
(* one statement at a time.  The validator and the wrapped view are        *)
(* external: the validator returns any error list, the view any response.  *)
(***************************************************************************)
Requests == 1..MaxWorkers

\* request.application_url
AppUrls == {"http://a", "http://b"}

\* The errors a request validation may report.
ResultErrorClasses == {"InvalidSecurity", "InvalidSchemaValue"}

ValidationErrors == SeqsUpTo(ResultErrorClasses, MaxResultErrs)

\* The responses the wrapped view may return.
ViewResponses == {"response-1", "response-2"}

\* pyramid.settings.asbool
asbool(v) ==
    IF v = None THEN FALSE
    ELSE IF v \in {"True", "False"} THEN v = "True"
    ELSE v \in {"str:t", "str:true", "str:y", "str:yes", "str:on", "str:1"}

\* Variant of validate_request that takes the plain truth value of the setting,
\* as validate_routes does for its flag.
validate_request_truthy == Truthy(Get(reqFlag, "True"))

\* asbool(settings.get("pyramid_openapi3.enable_request_validation", True))
validate_request == asbool(Get(reqFlag, "True"))

\* asbool(settings.get("pyramid_openapi3.enable_response_validation", True))
validate_response == asbool(Get(respFlag, "True"))

NotValidated == [set |-> FALSE]

NewRequest(url, opted) ==
    [ pc |-> IF opted THEN "start" ELSE "view",
      url |-> url,
      opted |-> opted,
      environ |-> [validate_response |-> Unset, validate_request |-> Unset],
      openapi_validated |-> NotValidated,
      seen_base |-> None,
      refreshed |-> {},
      validator_calls |-> 0,
      handler_calls |-> 0,
      handler_saw |-> NotValidated,
      outcome |-> [kind |-> "none"] ]

\* Lines 81-92: the flags are read, the response flag is stored in
\* request.environ, and settings["pyramid_openapi3"] is looked up, which raises
\* KeyError when no spec is registered.
wrapper_view_settings(r) ==
    /\ req[r].pc = "start"
    /\ req' = [req EXCEPT
                 ![r].environ.validate_response =
                     IF validate_response THEN "True" ELSE "False",
                 ![r].pc = IF bag = NoBag THEN "done" ELSE "set_request_base",
                 ![r].outcome = IF bag = NoBag THEN [kind |-> "KeyError"] ELSE @]
    /\ UNCHANGED <<bag, routeVars, respVars, errVars, cfgVars, reqFlag, respFlag, baseUrl>>

\* An assignment that refreshes the response validator in place of the request
\* validator.
wrapper_view_request_base_wrong(r) ==
    /\ req[r].pc = "set_request_base"
    /\ baseUrl' = [baseUrl EXCEPT !.response_validator = req[r].url]
    /\ req' = [req EXCEPT ![r].pc = "set_response_base",
                          ![r].refreshed = @ \cup {"response_validator"}]
    /\ UNCHANGED <<bag, routeVars, respVars, errVars, cfgVars, reqFlag, respFlag>>

\* Line 96: settings["request_validator"].base_url = request.application_url
wrapper_view_request_base(r) ==
    /\ req[r].pc = "set_request_base"
    /\ baseUrl' = [baseUrl EXCEPT !.request_validator = req[r].url]
    /\ req' = [req EXCEPT ![r].pc = "set_response_base",
                          ![r].refreshed = @ \cup {"request_validator"}]
    /\ UNCHANGED <<bag, routeVars, respVars, errVars, cfgVars, reqFlag, respFlag>>

\* Lines 97-99: settings["response_validator"].base_url = request.application_url,
\* then the test of validate_request.
wrapper_view_response_base(r) ==
    /\ req[r].pc = "set_response_base"
    /\ baseUrl' = [baseUrl EXCEPT !.response_validator = req[r].url]
    /\ req' = [req EXCEPT ![r].pc = IF validate_request THEN "validate" ELSE "view",
                          ![r].refreshed = @ \cup {"response_validator"}]
    /\ UNCHANGED <<bag, routeVars, respVars, errVars, cfgVars, reqFlag, respFlag>>

\* A wrapper that goes on to the view whatever the validation found.
wrapper_view_validate_lenient(r) ==
    /\ req[r].pc = "validate"
    /\ \E errors \in ValidationErrors :
          req' = [req EXCEPT
                    ![r].environ.validate_request = "True",
                    ![r].openapi_validated = [set |-> TRUE, errors |-> errors],
                    ![r].seen_base = baseUrl.request_validator,
                    ![r].validator_calls = @ + 1,
                    ![r].pc = "view"]
    /\ UNCHANGED <<bag, routeVars, respVars, errVars, cfgVars, reqFlag, respFlag, baseUrl>>

\* Lines 100-108: the request validator runs with the base_url it holds at that
\* moment, its result is stored on the request, and a result with errors is
\* raised as RequestValidationError, which the exception view answers.
wrapper_view_validate(r) ==
    /\ req[r].pc = "validate"
    /\ \E errors \in ValidationErrors :
          req' = [req EXCEPT
                    ![r].environ.validate_request = "True",
                    ![r].openapi_validated = [set |-> TRUE, errors |-> errors],
                    ![r].seen_base = baseUrl.request_validator,
                    ![r].validator_calls = @ + 1,
                    ![r].pc = IF errors # <<>> THEN "done" ELSE "view",
                    ![r].outcome =
                        IF errors # <<>>
                        THEN [kind |-> "RequestValidationError",
                              errors |-> errors,
                              status_code |-> StatusCode("RequestValidationError", errors)]
                        ELSE @]
    /\ UNCHANGED <<bag, routeVars, respVars, errVars, cfgVars, reqFlag, respFlag, baseUrl>>

\* A call of the view that hands back a response of its own.
call_view_rewrapped(r) ==
    /\ req[r].pc = "view"
    /\ \E response \in ViewResponses :
          req' = [req EXCEPT
                    ![r].handler_calls = @ + 1,
                    ![r].handler_saw = req[r].openapi_validated,
                    ![r].pc = "done",
                    ![r].outcome = [kind |-> "response",
                                    returned |-> response,
                                    body |-> "response-1"]]
    /\ UNCHANGED <<bag, routeVars, respVars, errVars, cfgVars, reqFlag, respFlag, baseUrl>>

\* Line 111 (and line 114 for a view that did not opt in): view(context,
\* request) runs and what it returns is returned.
call_view(r) ==
    /\ req[r].pc = "view"
    /\ \E response \in ViewResponses :
          req' = [req EXCEPT
                    ![r].handler_calls = @ + 1,
                    ![r].handler_saw = req[r].openapi_validated,
                    ![r].pc = "done",
                    ![r].outcome = [kind |-> "response",
                                    returned |-> response,
                                    body |-> response]]
    /\ UNCHANGED <<bag, routeVars, respVars, errVars, cfgVars, reqFlag, respFlag, baseUrl>>

\* The request validation flag may be unset, a bool or a str.
RequestFlagPool == {Unset, "False", "str:false", "str:true"}

ResponseFlagPool == {Unset, "str:false"}

InitView ==
    /\ bag \in { NoBag,
                 MkBag("a.yaml", "pyramid_openapi3.spec",
                       [servers |-> <<>>, paths |-> <<>>, operations |-> <<>>], None) }
    /\ RoutesIdle
    /\ RespIdle
    /\ ErrIdle
    /\ CfgIdle
    /\ reqFlag \in RequestFlagPool
    /\ respFlag \in ResponseFlagPool
    /\ baseUrl = [request_validator |-> None, response_validator |-> None]
    /\ req \in [Requests -> { NewRequest(url, opted) : url \in AppUrls, opted \in BOOLEAN }]

NextView ==
    \E r \in Requests :
        \/ wrapper_view_settings(r)
        \/ wrapper_view_request_base(r)
        \/ wrapper_view_response_base(r)
        \/ wrapper_view_validate(r)
        \/ call_view(r)

SpecView == InitView /\ [][NextView]_vars

(***************************************************************************)
(* Properties of wrapper_view.                                             *)
(***************************************************************************)
\* The request validator returned a result for request r.
Validated(r) == req[r].openapi_validated # NotValidated

\* C1: when the result of the request validator carries an error, the wrapper
\* has raised RequestValidationError with exactly the errors of the result, and
\* the wrapped view was not invoked.
C1_ErrorsAbortBeforeView ==
    \A r \in Requests :
        (Validated(r) /\ req[r].openapi_validated.errors # <<>>) =>
            /\ req[r].opted
            /\ req[r].pc = "done"
            /\ req[r].outcome.kind = "RequestValidationError"
            /\ req[r].outcome.errors = req[r].openapi_validated.errors
            /\ req[r].handler_calls = 0
            /\ req[r].handler_saw = NotValidated

\* C1 witness: a request was refused with the error the validator reported
\* while another worker's view has run.
C1_Witness ==
    \E r, q \in Requests :
        /\ req[r].outcome.kind = "RequestValidationError"
        /\ Len(req[r].outcome.errors) >= 1
        /\ req[r].handler_calls = 0
        /\ req[q].handler_calls = 1

\* C7: the validate call of a request reads the base_url the shared request
\* validator holds at that moment.  It is the URL of a request that has run
\* line 96, and it differs from the request's own URL only when another request
\* with that URL has run line 96; the witness is such an interleaving.
C7_SharedBaseUrl ==
    \A r \in Requests :
        req[r].validator_calls > 0 =>
            /\ \E q \in Requests :
                  /\ "request_validator" \in req[q].refreshed
                  /\ req[q].url = req[r].seen_base
            /\ req[r].seen_base # req[r].url =>
                  \E q \in Requests \ {r} :
                      /\ "request_validator" \in req[q].refreshed
                      /\ req[q].url = req[r].seen_base

\* C7 witness: a request was validated while the request validator held the
\* application URL of another request.
C7_Witness ==
    \E r \in Requests :
        /\ req[r].validator_calls = 1
        /\ req[r].seen_base \in AppUrls
        /\ req[r].seen_base # req[r].url

\* C8: when the validation result carries no error, the view is invoked once,
\* after the result was attached to the request, and the wrapper returns what
\* the view returned.
C8_ValidThenView ==
    \A r \in Requests :
        /\ req[r].pc = "validate" => req[r].handler_calls = 0
        /\ (Validated(r) /\ req[r].openapi_validated.errors = <<>>) =>
              /\ req[r].pc \in {"view", "done"}
              /\ req[r].pc = "view" => req[r].handler_calls = 0
              /\ req[r].pc = "done" =>
                    /\ req[r].handler_calls = 1
                    /\ req[r].handler_saw = req[r].openapi_validated
                    /\ req[r].outcome.kind = "response"
                    /\ req[r].outcome.body = req[r].outcome.returned

\* C8 witness: a validated request whose view returned the second response.
C8_Witness ==
    \E r \in Requests :
        /\ req[r].pc = "done"
        /\ req[r].opted
        /\ req[r].validator_calls = 1
        /\ req[r].handler_saw = [set |-> TRUE, errors |-> <<>>]
        /\ req[r].handler_calls = 1
        /\ req[r].outcome = [kind |-> "response", returned |-> "response-2",
                             body |-> "response-2"]

\* The request validation flag is true: unset, True, or a str asbool accepts.
C9_RequestFlagOn == reqFlag \in {Unset, "True", "str:true"}

C9_ResponseFlagOn == respFlag \in {Unset, "True", "str:true"}

\* The part of C9 that does not depend on whether a spec is registered.
C9_Rest(r, validates) ==
    /\ req[r].validator_calls = (IF validates THEN 1 ELSE 0)
    /\ ~validates =>
          /\ req[r].openapi_validated = NotValidated
          /\ req[r].environ.validate_request = Unset
          /\ req[r].outcome.kind # "RequestValidationError"
    /\ ~req[r].opted =>
          /\ req[r].environ.validate_response = Unset
          /\ req[r].refreshed = {}

\* C9, as stated: for a handled request the validator was invoked iff the view
\* opted in and the request validation flag is true; otherwise the view was
\* invoked directly; and an opted-in request has the response validation flag
\* recorded and both base URLs refreshed.
C9_ValidatorIffOptedAndFlag ==
    \A r \in Requests :
        req[r].pc = "done" =>
            LET validates == req[r].opted /\ C9_RequestFlagOn
            IN  /\ C9_Rest(r, validates)
                /\ ~validates => req[r].handler_calls = 1 /\ req[r].outcome.kind = "response"
                /\ req[r].opted =>
                      /\ req[r].environ.validate_response =
                            (IF C9_ResponseFlagOn THEN "True" ELSE "False")
                      /\ req[r].refreshed = {"request_validator", "response_validator"}

\* C9, amended: the validator is invoked iff the view opted in, the request
\* validation flag is true and a spec is registered.  An opted-in request on an
\* application without a spec records the response validation flag and then
\* fails with KeyError: no base URL is refreshed, neither the validator nor the
\* view is invoked.  In every other case without validation the view is
\* invoked directly, no result is stored and no RequestValidationError is
\* raised; with a spec registered an opted-in request has the response
\* validation flag recorded and both base URLs refreshed, also when request
\* validation is disabled or fails.
C9_ValidatorIffOptedFlagAndSpec ==
    \A r \in Requests :
        req[r].pc = "done" =>
            LET validates == req[r].opted /\ C9_RequestFlagOn /\ bag # NoBag
                keyError == req[r].opted /\ bag = NoBag
            IN  /\ C9_Rest(r, validates)
                /\ (~validates /\ ~keyError) =>
                      req[r].handler_calls = 1 /\ req[r].outcome.kind = "response"
                /\ keyError =>
                      /\ req[r].outcome.kind = "KeyError"
                      /\ req[r].handler_calls = 0
                      /\ req[r].refreshed = {}
                /\ req[r].opted =>
                      req[r].environ.validate_response =
                          (IF C9_ResponseFlagOn THEN "True" ELSE "False")
                /\ (req[r].opted /\ bag # NoBag) =>
                      req[r].refreshed = {"request_validator", "response_validator"}

\* C9 witness: with request validation switched off by the str "false", an
\* opted-in request reached its view without validation, with the response flag
\* recorded and both base URLs refreshed, and a request to a view that did not
\* opt in was handled too.
C9_Witness ==
    /\ reqFlag = "str:false"
    /\ bag # NoBag
    /\ \E r, q \in Requests :
          /\ req[r].opted
          /\ req[r].pc = "done"
          /\ req[r].validator_calls = 0
          /\ req[r].handler_calls = 1
          /\ req[r].environ.validate_response = "False"
          /\ req[r].refreshed = {"request_validator", "response_validator"}
          /\ ~req[q].opted
          /\ req[q].pc = "done"

=============================================================================
